---- MODULE Spec2Model ----
(***************************************************************************)
(* Model of the ingredient identity pipeline: the normalizers, the         *)
(* Decision Classifier (export_csv), get_or_create_ingredient and          *)
(* promote_recipe (pipeline.py), the Merge Executor (phase2_alias_job.py)  *)
(* and the Collision Resolver (resolve_collisions.py).                     *)
(*                                                                         *)
(* Text is modelled at character level.  A string is a sequence of         *)
(* characters; a character is a one-letter TLA+ string, except that a      *)
(* precomposed accented letter is written as its base letter followed by   *)
(* "*" ("o*" stands for any of o with diacritics, "O*" for its capital),   *)
(* the bare combining mark is "*", and "d-" / "D-" stand for the stroked   *)
(* d, which has no canonical decomposition.                                *)
(***************************************************************************)
EXTENDS Integers, Sequences, FiniteSets, TLC

(* SQL NULL / Python None, and a present value v *)
NULL == <<>>

Some(v) == <<v>>

----------------------------------------------------------------------------
(* Characters *)

LowerLetters == {"a","b","c","d","e","f","g","h","i","j","k","l","m",
                 "n","o","p","q","r","s","t","u","v","w","x","y","z"}

Digits == {"0","1","2","3","4","5","6","7","8","9"}

Whitespace == {" "}

(* str.lower() on one character *)
LowerCh(c) ==
  CASE c = "P"  -> "p"
    [] c = "H"  -> "h"
    [] c = "G"  -> "g"
    [] c = "O"  -> "o"
    [] c = "A"  -> "a"
    [] c = "X"  -> "x"
    [] c = "O*" -> "o*"
    [] c = "A*" -> "a*"
    [] c = "D-" -> "d-"
    [] OTHER    -> c

Lower(s) == [i \in DOMAIN s |-> LowerCh(s[i])]

(* unicodedata.normalize("NFD", .) on one character *)
Decompose(c) ==
  CASE c = "o*" -> <<"o", "*">>
    [] c = "a*" -> <<"a", "*">>
    [] c = "O*" -> <<"O", "*">>
    [] c = "A*" -> <<"A", "*">>
    [] c = "i*" -> <<"i", "*">>
    [] OTHER    -> <<c>>

RECURSIVE NFD(_)
NFD(s) == IF s = <<>> THEN <<>> ELSE Decompose(Head(s)) \o NFD(Tail(s))

(* unicodedata.category(ch) = "Mn" *)
IsMn(c) == c = "*"

(* unicodedata.normalize("NFC", .): a base letter followed by a mark is
   recomposed *)
RECURSIVE NFC(_)
NFC(s) ==
  IF Len(s) < 2 THEN s
  ELSE IF s[2] = "*" /\ s[1] \in {"o", "a", "O", "A", "i"}
       THEN <<s[1] \o "*">> \o NFC(SubSeq(s, 3, Len(s)))
       ELSE <<s[1]>> \o NFC(Tail(s))

remove_accents(s) == NFC(SelectSeq(NFD(s), LAMBDA c : ~IsMn(c)))

(* re.sub(<class>+, " ", s): every maximal run of characters satisfying
   the class becomes one space.  keep is the complement of the class. *)
SubRuns(s, keep) ==
  SelectSeq([i \in DOMAIN s |->
               IF s[i] \in keep THEN s[i]
               ELSE IF i > 1 /\ s[i - 1] \notin keep THEN "" ELSE " "],
            LAMBDA c : c # "")

(* str.strip() *)
Strip(s) ==
  IF \A i \in DOMAIN s : s[i] \in Whitespace THEN <<>>
  ELSE SubSeq(s,
         CHOOSE i \in DOMAIN s :
            s[i] \notin Whitespace /\ \A j \in 1..(i - 1) : s[j] \in Whitespace,
         CHOOSE i \in DOMAIN s :
            s[i] \notin Whitespace /\ \A j \in (i + 1)..Len(s) : s[j] \in Whitespace)

Min(S) == CHOOSE x \in S : \A y \in S : x <= y

RECURSIVE SortedSeq(_)
SortedSeq(S) == IF S = {} THEN <<>> ELSE <<Min(S)>> \o SortedSeq(S \ {Min(S)})

(* the pieces of s between the positions in cuts, empty pieces included *)
Pieces(s, cuts) ==
  LET b == <<0>> \o SortedSeq(cuts) \o <<Len(s) + 1>>
  IN  [i \in 1..(Len(b) - 1) |-> SubSeq(s, b[i] + 1, b[i + 1] - 1)]

(* str.split(): the maximal runs of non-whitespace characters *)
Split(s) ==
  SelectSeq(Pieces(s, {i \in DOMAIN s : s[i] \in Whitespace}),
            LAMBDA q : q # <<>>)

(* the characters of a sequence as one TLA+ string *)
RECURSIVE Str(_)
Str(s) == IF s = <<>> THEN "" ELSE Head(s) \o Str(Tail(s))

----------------------------------------------------------------------------
(* Normalizers *)

Chars(s) == {s[i] : i \in DOMAIN s}

Alnum == LowerLetters \cup Digits

(* pipeline.normalize_spaces: RE_SPACES.sub(" ", s).strip() *)
normalize_spaces(s) == Strip(SubRuns(s, Chars(s) \ Whitespace))

(* pipeline.normalize_alias_norm, the parser-side normalizer *)
normalize_alias_norm(key) ==
  normalize_spaces(SubRuns(remove_accents(Lower(key)), Alnum))

STOPWORDS ==
  {"va", "voi", "loai", "moi", "neu", "thi", "dung", "cung", "duoc", "de",
   "it", "mot", "vai", "khoang", "hoac", "cai", "goi", "hop", "chai", "lon",
   "tuoi", "kho", "an", "uong"}

(* ABBREV_MAP.get(t, t); "n.c" can never be a token, the dot having been
   replaced by a space before the split *)
AbbrevMap(t) ==
  CASE Str(t) = "nc"   -> <<"n", "u", "o", "c">>
    [] Str(t) = "n.c"  -> <<"n", "u", "o", "c">>
    [] Str(t) = "nuoc" -> <<"n", "u", "o", "c">>
    [] Str(t) = "sg"   -> <<>>
    [] Str(t) = "hn"   -> <<>>
    [] OTHER           -> t

(* " ".join(tokens), tokens being character sequences *)
RECURSIVE JoinSeq(_)
JoinSeq(ts) ==
  IF ts = <<>> THEN <<>>
  ELSE IF Len(ts) = 1 THEN ts[1]
  ELSE ts[1] \o <<" ">> \o JoinSeq(Tail(ts))

(* the token loop of normalize_key *)
KeepToken(t) == AbbrevMap(t) # <<>> /\ Str(AbbrevMap(t)) \notin STOPWORDS

MapTokens(ts) == [i \in DOMAIN ts |-> AbbrevMap(ts[i])]

(* phase2_alias_job.normalize_key, the dedup/merge-side normalizer *)
normalize_key(s) ==
  LET s1 == Lower(Strip(s))
      s2 == remove_accents(s1)
      s3 == SubRuns(s2, Alnum \cup Whitespace)
      s4 == Strip(SubRuns(s3, Chars(s3) \ Whitespace))
  IN  IF s4 = <<>> THEN <<>>
      ELSE JoinSeq(MapTokens(SelectSeq(Split(s4), KeepToken)))

(* phase2_alias_job.alias_norm_for_alias *)
alias_norm_for_alias(alias_key) == normalize_key(alias_key)

----------------------------------------------------------------------------
(* Decision Classifier helpers (phase2_alias_job.py) *)

BadKeyLen == 40
BadKeyTokens == 8

(* looks_bad_key: empty, contains a digit, 40 characters or more, more
   than 8 whitespace-separated words *)
looks_bad_key(key) ==
  \/ key = <<>>
  \/ Chars(key) \cap Digits # {}
  \/ Len(key) >= BadKeyLen
  \/ Len(Split(key)) > BadKeyTokens

PACKAGING_WORDS ==
  {"hop", "goi", "chai", "lon", "hu", "bi", "tui", "loai", "th",
   "lo", "thung", "vien", "que", "mieng"}

DANGEROUS_NEAR_PAIRS ==
  {<<"canh", "chanh">>, <<"chanh", "canh">>,
   <<"suon", "sun">>, <<"sun", "suon">>,
   <<"ga", "gao">>, <<"gao", "ga">>,
   <<"ca", "cua">>, <<"cua", "ca">>,
   <<"chan", "cha">>, <<"cha", "chan">>}

PROTEIN_TOKENS == {"ga", "heo", "bo", "tom", "ca", "cua", "de", "vit", "lon"}

(* tokens(n), each token as a string *)
tokens(n) == [i \in DOMAIN Split(n) |-> Str(Split(n)[i])]

TokenSet(n) == {tokens(n)[i] : i \in DOMAIN tokens(n)}

has_packaging_suffix(alias_norm, canon_norm) ==
  LET ct == tokens(canon_norm)
      at == tokens(alias_norm)
  IN  /\ ct # <<>>
      /\ Len(at) > Len(ct)
      /\ SubSeq(at, 1, Len(ct)) = ct
      /\ \A i \in (Len(ct) + 1)..Len(at) : at[i] \in PACKAGING_WORDS

(* mutation: no pair counts as format-only *)
FormatOnlyNever(canon_norm, alias_norm) == FALSE

is_format_only(canon_norm, alias_norm) == canon_norm = alias_norm

has_dangerous_pair(canon_norm, alias_norm) ==
  \E p \in DANGEROUS_NEAR_PAIRS :
     p[1] \in TokenSet(canon_norm) /\ p[2] \in TokenSet(alias_norm)

protein_mismatch(canon_norm, alias_norm) ==
  LET ct == TokenSet(canon_norm) \cap PROTEIN_TOKENS
      at == TokenSet(alias_norm) \cap PROTEIN_TOKENS
  IN  ct # {} /\ at # {} /\ ct # at

last_token_diff(canon_norm, alias_norm) ==
  LET ct == tokens(canon_norm)
      at == tokens(alias_norm)
  IN  ct # <<>> /\ at # <<>> /\ ct[Len(ct)] # at[Len(at)]

(* the score below which a differing last token rejects, in hundredths *)
LastTokenScore == 98

(* mutation: the approve rules are tried before the reject rules *)
ExportCsvApproveFirst(canonical_key, alias_key, score, approve_packaging) ==
  LET canon_norm == normalize_key(canonical_key)
      alias_norm == normalize_key(alias_key)
  IN  IF canon_norm = alias_norm
        THEN <<"auto_approve", "Y">>
      ELSE IF approve_packaging /\ has_packaging_suffix(alias_norm, canon_norm)
        THEN <<"auto_approve", "Y">>
      ELSE IF \/ looks_bad_key(alias_key) \/ looks_bad_key(canonical_key)
              \/ protein_mismatch(canon_norm, alias_norm)
              \/ has_dangerous_pair(canon_norm, alias_norm)
              \/ last_token_diff(canon_norm, alias_norm) /\ score < LastTokenScore
        THEN <<"auto_reject", "">>
      ELSE <<"manual_review", "">>

(* the body of export_csv's loop for one suggestion: <<decision, approved>>.
   score is the similarity in hundredths. *)
export_csv(canonical_key, alias_key, score, approve_packaging) ==
  LET canon_norm == normalize_key(canonical_key)
      alias_norm == normalize_key(alias_key)
  IN  IF looks_bad_key(alias_key) \/ looks_bad_key(canonical_key)
        THEN <<"auto_reject", "">>
      ELSE IF protein_mismatch(canon_norm, alias_norm)
        THEN <<"auto_reject", "">>
      ELSE IF has_dangerous_pair(canon_norm, alias_norm)
        THEN <<"auto_reject", "">>
      ELSE IF last_token_diff(canon_norm, alias_norm) /\ score < LastTokenScore
        THEN <<"auto_reject", "">>
      ELSE IF is_format_only(canon_norm, alias_norm)
        THEN <<"auto_approve", "Y">>
      ELSE IF approve_packaging /\ has_packaging_suffix(alias_norm, canon_norm)
        THEN <<"auto_approve", "Y">>
      ELSE <<"manual_review", "">>

----------------------------------------------------------------------------
(* The store: ingredients, ingredient_aliases, recipe_ingredients *)

IngredientIds == {1, 2, 3}

RecipeIds == {"r1", "r2"}

(* ingredients.key, unique per ingredient: "pho", "pho" with diacritics,
   and "hanh kho" with diacritics, whose last word is a stopword of
   normalize_key *)
KeyOf(i) ==
  CASE i = 1 -> <<"p", "h", "o">>
    [] i = 2 -> <<"p", "h", "o*">>
    [] i = 3 -> <<"h", "a*", "n", "h", " ", "k", "h", "o*">>

(* the alias_norm the parser derives from a key, and the one the Merge
   Executor derives from it *)
ParserNorm == [i \in IngredientIds |-> normalize_alias_norm(KeyOf(i))]

MergeNorm == [i \in IngredientIds |-> alias_norm_for_alias(KeyOf(i))]

AliasRow(id, alias, an) ==
  [ingredient_id |-> id, alias |-> alias, alias_norm |-> an]

JoinRow(r, id, amount, unit, note, role) ==
  [recipe_id |-> r, ingredient_id |-> id, amount |-> amount, unit |-> unit,
   note |-> note, role |-> role]

(* UNIQUE (recipe_id, ingredient_id) on recipe_ingredients *)
UniqueJoinRows(ri) ==
  \A x, y \in ri :
     (x.recipe_id = y.recipe_id /\ x.ingredient_id = y.ingredient_id) => x = y

(* the uniqueness ingredient_aliases enforces, which is what lets
   ON CONFLICT DO NOTHING skip an insert: one row per
   (ingredient_id, alias_norm) *)
AliasConflict(al, id, an) ==
  \E x \in al : x.ingredient_id = id /\ x.alias_norm = an

UniqueAliasRows(al) ==
  \A x, y \in al :
     (x.ingredient_id = y.ingredient_id /\ x.alias_norm = y.alias_norm) => x = y

----------------------------------------------------------------------------
(* Merge Executor statements (phase2_alias_job.py) *)

(* SQL_INSERT_ALIAS: insert ... on conflict do nothing *)
(* mutation: the conflict is taken on alias_norm alone *)
InsertAliasGlobalNorm(al, id, alias, an) ==
  IF \E x \in al : x.alias_norm = an THEN al
  ELSE al \cup {AliasRow(id, alias, an)}

SQL_INSERT_ALIAS(al, id, alias, an) ==
  IF AliasConflict(al, id, an) THEN al ELSE al \cup {AliasRow(id, alias, an)}

NoteCap == 200

(* left(s, n) *)
Left(s, n) == IF Len(s) <= n THEN s ELSE SubSeq(s, 1, n)

(* the note expression of SQL_MERGE_CONFLICTS *)
MergedNoteSql(c_note, a_note) ==
  IF c_note = NULL /\ a_note = NULL THEN NULL
  ELSE IF c_note = NULL THEN a_note
  ELSE IF a_note = NULL THEN c_note
  ELSE Some(Left(c_note[1] \o <<";", " ">> \o a_note[1], NoteCap))

Coalesce(x, y) == IF x # NULL THEN x ELSE y

(* the row the "updated" CTE writes over canonical row c, given the
   conflicting alias row a *)
MergedRow(c, a) ==
  [c EXCEPT
     !.role   = IF c.role = "core" \/ a.role = "core" THEN "core" ELSE c.role,
     !.amount = Coalesce(c.amount, a.amount),
     !.unit   = Coalesce(c.unit, a.unit),
     !.note   = MergedNoteSql(c.note, a.note)]

(* the "conflicts" CTE: pairs <<c, a>> of rows of one recipe *)
Conflicts(ri, canonical_id, alias_id) ==
  {p \in ri \X ri :
     /\ p[1].recipe_id = p[2].recipe_id
     /\ p[1].ingredient_id = canonical_id
     /\ p[2].ingredient_id = alias_id}

(* mutation: the statement updates the canonical rows and deletes nothing *)
MergeConflictsNoDelete(ri, canonical_id, alias_id) ==
  LET cf == Conflicts(ri, canonical_id, alias_id)
  IN  (ri \ {p[1] : p \in cf}) \cup {MergedRow(p[1], p[2]) : p \in cf}

(* SQL_MERGE_CONFLICTS: one statement, the update and the delete both
   reading the rows as they were before it *)
SQL_MERGE_CONFLICTS(ri, canonical_id, alias_id) ==
  LET cf == Conflicts(ri, canonical_id, alias_id)
      cs == {p[1] : p \in cf}
      as == {p[2] : p \in cf}
  IN  ((ri \ cs) \ as) \cup {MergedRow(p[1], p[2]) : p \in cf}

(* SQL_UPDATE_NON_CONFLICT: <<rows kept, rows written>> *)
NonConflictRows(ri, canonical_id, alias_id) ==
  {a \in ri :
     /\ a.ingredient_id = alias_id
     /\ ~\E c \in ri : c.recipe_id = a.recipe_id /\ c.ingredient_id = canonical_id}

Repoint(rows, id) == {[x EXCEPT !.ingredient_id = id] : x \in rows}

(* a statement that leaves `kept` alone and writes `written` raises
   UniqueViolation when two rows end up with one (recipe_id, ingredient_id) *)
RaisesUniqueViolation(kept, written) ==
  \/ ~UniqueJoinRows(kept \cup written)
  \/ Cardinality(kept \cup written) < Cardinality(kept) + Cardinality(written)

SQL_UPDATE_NON_CONFLICT(ri, canonical_id, alias_id) ==
  LET moved == NonConflictRows(ri, canonical_id, alias_id)
  IN  [kept |-> ri \ moved, written |-> Repoint(moved, canonical_id)]

(* A store is [ing, al, ri]; a statement or a unit of work yields
   [db, err], err being "" or the exception raised, in which case db is
   the store as the failed statement left it. *)
Ok(db) == [db |-> db, err |-> ""]

(* apply_one_pair step 1 *)
PairInsertAlias(db, canonical_id, alias_key) ==
  Ok([db EXCEPT !.al = SQL_INSERT_ALIAS(db.al, canonical_id, alias_key,
                                        alias_norm_for_alias(alias_key))])

(* apply_one_pair step 2 *)
PairMergeConflicts(db, canonical_id, alias_id) ==
  Ok([db EXCEPT !.ri = SQL_MERGE_CONFLICTS(db.ri, canonical_id, alias_id)])

(* apply_one_pair step 3 *)
PairUpdateNonConflict(db, canonical_id, alias_id) ==
  LET u == SQL_UPDATE_NON_CONFLICT(db.ri, canonical_id, alias_id)
  IN  IF RaisesUniqueViolation(u.kept, u.written)
      THEN [db |-> db, err |-> "UniqueViolation"]
      ELSE Ok([db EXCEPT !.ri = u.kept \cup u.written])

(* apply_one_pair: the three statements in order; with dry_run nothing
   is executed *)
apply_one_pair(db, canonical_id, canonical_key, alias_id, alias_key, dry_run) ==
  IF dry_run THEN Ok(db)
  ELSE LET s1 == PairInsertAlias(db, canonical_id, alias_key)
           s2 == PairMergeConflicts(s1.db, canonical_id, alias_id)
       IN  PairUpdateNonConflict(s2.db, canonical_id, alias_id)

----------------------------------------------------------------------------
(* Collision Resolver statements (resolve_collisions.py) *)

(* SQL_OTHER_IDS_FOR_ALIAS: the set; it is walked in increasing order *)
SQL_OTHER_IDS_FOR_ALIAS(al, alias_norm, canonical_id) ==
  {x.ingredient_id : x \in {y \in al : /\ y.alias_norm = alias_norm
                                       /\ y.ingredient_id # canonical_id}}

(* mutation: no conflicting row is deleted before the repointing *)
DeleteConflictsNothing(ri, other_id, canonical_id) == ri

SQL_DELETE_CONFLICTS(ri, other_id, canonical_id) ==
  {x \in ri :
     ~(/\ x.ingredient_id = other_id
       /\ \E r2 \in ri : /\ r2.recipe_id = x.recipe_id
                         /\ r2.ingredient_id = canonical_id)}

(* SQL_UPDATE_RECIPE_INGREDIENTS: <<rows kept, rows written>> *)
SQL_UPDATE_RECIPE_INGREDIENTS(ri, canonical_id, other_id) ==
  LET moved == {x \in ri : x.ingredient_id = other_id}
  IN  [kept |-> ri \ moved, written |-> Repoint(moved, canonical_id)]

(* SQL_INSERT_ALIASES_TO_CANONICAL: the rows the select yields *)
SQL_INSERT_ALIASES_TO_CANONICAL(al, canonical_id, other_id, alias_norm) ==
  {AliasRow(canonical_id, ia.alias, ia.alias_norm) :
     ia \in {x \in al : /\ x.ingredient_id = other_id
                        /\ x.alias_norm = alias_norm
                        /\ ~AliasConflict(al, canonical_id, x.alias_norm)}}

(* mutation: the statement deletes no alias *)
DeleteAliasesNothing(al, other_id, alias_norm) == al

SQL_DELETE_ALIASES_FROM_OTHER(al, other_id, alias_norm) ==
  {x \in al : ~(x.ingredient_id = other_id /\ x.alias_norm = alias_norm)}

(* mutation: the ingredient is deleted whatever still references it *)
DeleteIngredientAlways(db, other_id) == db.ing \ {other_id}

SQL_DELETE_INGREDIENT_IF_ORPHAN(db, other_id) ==
  IF /\ ~\E x \in db.ri : x.ingredient_id = other_id
     /\ ~\E x \in db.al : x.ingredient_id = other_id
  THEN db.ing \ {other_id} ELSE db.ing

(* apply_one_alias, loop body, statement 1 *)
AliasDeleteConflicts(db, other_id, canonical_id) ==
  Ok([db EXCEPT !.ri = SQL_DELETE_CONFLICTS(db.ri, other_id, canonical_id)])

(* statement 2 *)
AliasUpdateRows(db, other_id, canonical_id) ==
  LET u == SQL_UPDATE_RECIPE_INGREDIENTS(db.ri, canonical_id, other_id)
  IN  IF RaisesUniqueViolation(u.kept, u.written)
      THEN [db |-> db, err |-> "UniqueViolation"]
      ELSE Ok([db EXCEPT !.ri = u.kept \cup u.written])

(* statement 3a: a plain insert, so a row that collides raises *)
AliasInsertAliases(db, other_id, canonical_id, alias_norm) ==
  LET new == SQL_INSERT_ALIASES_TO_CANONICAL(db.al, canonical_id, other_id,
                                             alias_norm)
  IN  IF ~UniqueAliasRows(db.al \cup new)
      THEN [db |-> db, err |-> "UniqueViolation"]
      ELSE Ok([db EXCEPT !.al = db.al \cup new])

(* statement 3b *)
AliasDeleteAliases(db, other_id, alias_norm) ==
  Ok([db EXCEPT !.al = SQL_DELETE_ALIASES_FROM_OTHER(db.al, other_id, alias_norm)])

(* statement 4 *)
AliasDeleteOrphan(db, other_id) ==
  Ok([db EXCEPT !.ing = SQL_DELETE_INGREDIENT_IF_ORPHAN(db, other_id)])

(* one pass of the loop of apply_one_alias for other_id *)
AliasLoopBody(db, other_id, canonical_id, alias_norm) ==
  LET s1 == AliasDeleteConflicts(db, other_id, canonical_id)
      s2 == AliasUpdateRows(s1.db, other_id, canonical_id)
      s3 == AliasInsertAliases(s2.db, other_id, canonical_id, alias_norm)
      s4 == AliasDeleteAliases(s3.db, other_id, alias_norm)
      s5 == AliasDeleteOrphan(s4.db, other_id)
  IN  IF s2.err # "" THEN s2 ELSE IF s3.err # "" THEN s3 ELSE s5

RECURSIVE AliasLoop(_, _, _, _)
AliasLoop(db, other_ids, canonical_id, alias_norm) ==
  IF other_ids = {} THEN Ok(db)
  ELSE LET o == Min(other_ids)
           s == AliasLoopBody(db, o, canonical_id, alias_norm)
       IN  IF s.err # "" THEN s
           ELSE AliasLoop(s.db, other_ids \ {o}, canonical_id, alias_norm)

(* apply_one_alias; with dry_run only counting queries run *)
apply_one_alias(db, alias_norm, canonical_id, dry_run) ==
  IF dry_run THEN Ok(db)
  ELSE AliasLoop(db, SQL_OTHER_IDS_FOR_ALIAS(db.al, alias_norm, canonical_id),
                 canonical_id, alias_norm)

----------------------------------------------------------------------------
(* Identity resolution and promotion (pipeline.py) *)

(* x.split(sep) *)
SplitOn(s, sep) == Pieces(s, {i \in DOMAIN s : s[i] = sep})

(* [p.strip() for p in x.split(";") if p.strip()] *)
NoteParts(x) ==
  IF x = NULL \/ x[1] = <<>> THEN <<>>
  ELSE LET ps == SplitOn(x[1], ";")
       IN  SelectSeq([i \in DOMAIN ps |-> Strip(ps[i])], LAMBDA q : q # <<>>)

(* the seen/uniq loop of merge_note *)
RECURSIVE UniqParts(_, _)
UniqParts(parts, seen) ==
  IF parts = <<>> THEN <<>>
  ELSE IF Lower(Head(parts)) \in seen THEN UniqParts(Tail(parts), seen)
  ELSE <<Head(parts)>> \o UniqParts(Tail(parts), seen \cup {Lower(Head(parts))})

(* "; ".join(parts) *)
RECURSIVE JoinNote(_)
JoinNote(ps) ==
  IF ps = <<>> THEN <<>>
  ELSE IF Len(ps) = 1 THEN ps[1]
  ELSE ps[1] \o <<";", " ">> \o JoinNote(Tail(ps))

(* promote_recipe.merge_note *)
merge_note(a, b) ==
  LET out == JoinNote(UniqParts(NoteParts(a) \o NoteParts(b), {}))
  IN  IF out = <<>> THEN NULL ELSE Some(Left(out, NoteCap))

pick_role(old_role, new_role) ==
  IF old_role = "core" \/ new_role = "core" THEN "core" ELSE "optional"

(* get_or_create_ingredient: the set of possible [db, id], the alias
   lookup being LIMIT 1 with no ORDER BY.  key is the key of ingredient
   slot k, already stripped and lower-cased by the parser. *)
get_or_create_ingredient(db, k, alias_norm) ==
  LET key  == Lower(Strip(KeyOf(k)))
      hits == {x.ingredient_id : x \in {y \in db.al : y.alias_norm = alias_norm}}
      byKey == {i \in db.ing : KeyOf(i) = key}
  IN  IF hits # {} THEN {[db |-> db, id |-> i] : i \in hits}
      ELSE IF byKey # {}
        THEN {[db |-> [db EXCEPT !.al = SQL_INSERT_ALIAS(db.al, i, key, alias_norm)],
               id |-> i] : i \in byKey}
      ELSE {[db |-> [db EXCEPT !.ing = db.ing \cup {k},
                               !.al = SQL_INSERT_ALIAS(db.al, k, key, alias_norm)],
             id |-> k]}

(* the dedup step of promote_recipe for one parsed item pi resolved to
   ing_id; dedup maps ingredient ids to [amount, unit, note, role] *)
DedupPut(dedup, ing_id, pi) ==
  IF ing_id \notin DOMAIN dedup
  THEN (ing_id :> [amount |-> pi.amount, unit |-> pi.unit,
                   note |-> pi.note, role |-> pi.role]) @@ dedup
  ELSE LET old == dedup[ing_id]
           amt == IF old.amount # NULL THEN old.amount
                  ELSE IF pi.amount # NULL THEN pi.amount ELSE NULL
           unit == IF old.amount # NULL THEN old.unit
                   ELSE IF pi.amount # NULL THEN pi.unit ELSE NULL
       IN  [dedup EXCEPT ![ing_id] =
              [amount |-> amt, unit |-> unit,
               note |-> merge_note(old.note, pi.note),
               role |-> pick_role(old.role, pi.role)]]

(* the loop of promote_recipe over the parsed items: every reachable
   [db, dedup] *)
RECURSIVE PromoteLoop(_, _)
PromoteLoop(states, items) ==
  IF items = <<>> THEN states
  ELSE PromoteLoop(
         UNION {{[db |-> g.db, dedup |-> DedupPut(st.dedup, g.id, Head(items))] :
                   g \in get_or_create_ingredient(st.db, Head(items).k,
                                                  ParserNorm[Head(items).k])} :
                st \in states},
         Tail(items))

(* replace_recipe_ingredients *)
replace_recipe_ingredients(ri, r, dedup) ==
  {x \in ri : x.recipe_id # r}
    \cup {JoinRow(r, i, dedup[i].amount, dedup[i].unit, dedup[i].note,
                  dedup[i].role) : i \in DOMAIN dedup}

(* promote_recipe, the part that touches the three tables: the stores
   the transaction can commit *)
promote_recipe(db, r, items) ==
  {[st.db EXCEPT !.ri = replace_recipe_ingredients(st.db.ri, r, st.dedup)] :
     st \in PromoteLoop({[db |-> db, dedup |-> <<>>]}, items)}

----------------------------------------------------------------------------
(* Serial transactions on the store *)

VARIABLES
  db,        \* the committed store [ing, al, ri]
  last,      \* the last transaction: [op, c, a, n, err, pre]
  ops,       \* how many transactions have run
  job,       \* the running batch of cmd_apply or run_apply
  cls,       \* the suggestion under classification and its decision
  call       \* a function under evaluation: its input and, once applied, its result

vars == <<db, last, ops, job, cls, call>>

MaxItems == 2
MaxOps == 1

(* 100 characters: two such notes joined by "; " exceed the cap *)
HalfNote == [i \in 1..(NoteCap \div 2) |-> "z"]

(* what the parser can hand over for one item besides its key: a plain
   quantity, and a fraction with a zero denominator (amount None, unit
   kept) carrying a note *)
PlainQuantity ==
  [amount |-> Some(1), unit |-> Some("g"), note |-> NULL, role |-> "core"]

ItemProfiles ==
  {PlainQuantity,
   [amount |-> NULL, unit |-> Some("kg"), note |-> Some(HalfNote),
    role |-> "optional"]}

ParsedItem(k, p) ==
  [k |-> k, amount |-> p.amount, unit |-> p.unit, note |-> p.note,
   role |-> p.role]

ParsedItems == {ParsedItem(k, p) : k \in IngredientIds, p \in ItemProfiles}

(* the staged ingredient lines of a recipe, parsed: r1 names up to
   MaxItems different keys, in key order; r2 is one item with a plain
   quantity *)
StgItems(r) ==
  IF r = "r1"
  THEN UNION {{l \in [1..n -> ParsedItems] :
                 \A i \in 1..(n - 1) : l[i].k < l[i + 1].k} : n \in 1..MaxItems}
  ELSE {<<ParsedItem(k, PlainQuantity)>> : k \in IngredientIds}

OwnAlias(i) == AliasRow(i, KeyOf(i), ParserNorm[i])

NoJob == [kind |-> "none"]

NoCls == [phase |-> "none"]

NoCall == [fn |-> "none"]

NoOp == [op |-> "none", c |-> 0, a |-> 0, n |-> <<>>, err |-> "",
         pre |-> [ing |-> {}, al |-> {}, ri |-> {}]]

(* every ingredient exists, those of S with the alias row
   get_or_create_ingredient writes for a key, and no recipe is promoted *)
SeedStore(S) ==
  [ing |-> IngredientIds, al |-> {OwnAlias(i) : i \in S}, ri |-> {}]

(* the stores promote_recipe leaves when run for r1, then for r2, either
   of them possibly not promoted yet *)
PromotedStores(seed) ==
  LET one == {seed} \cup UNION {promote_recipe(seed, "r1", l) :
                                  l \in StgItems("r1")}
  IN  one \cup UNION {promote_recipe(d, "r2", l) :
                        d \in one, l \in StgItems("r2")}

InitStore ==
  /\ \E S \in SUBSET IngredientIds : db \in PromotedStores(SeedStore(S))
  /\ last = NoOp
  /\ ops = 0
  /\ job = NoJob
  /\ cls = NoCls
  /\ call = NoCall

Promote ==
  /\ ops < MaxOps
  /\ \E r \in RecipeIds :
       \E items \in StgItems(r) :
         /\ db' \in promote_recipe(db, r, items)
         /\ last' = [NoOp EXCEPT !.op = "promote", !.pre = db]
  /\ ops' = ops + 1
  /\ UNCHANGED <<job, cls, call>>

(* with conn: apply_one_pair(...): commit, or roll back on an exception *)
ApplyPair ==
  /\ ops < MaxOps
  /\ \E c \in db.ing, a \in db.ing :
       /\ c # a
       /\ LET res == apply_one_pair(db, c, KeyOf(c), a, KeyOf(a), FALSE)
          IN  /\ db' = IF res.err = "" THEN res.db ELSE db
              /\ last' = [NoOp EXCEPT !.op = "pair", !.c = c, !.a = a,
                                      !.err = res.err, !.pre = db]
  /\ ops' = ops + 1
  /\ UNCHANGED <<job, cls, call>>

(* with conn: apply_one_alias(...), for a row of the collision report: an
   alias_norm some entity other than the chosen canonical owns *)
ApplyAlias ==
  /\ ops < MaxOps
  /\ \E c \in db.ing, n \in {x.alias_norm : x \in db.al} :
       LET res == apply_one_alias(db, n, c, FALSE)
       IN  /\ SQL_OTHER_IDS_FOR_ALIAS(db.al, n, c) # {}
           /\ db' = IF res.err = "" THEN res.db ELSE db
           /\ last' = [NoOp EXCEPT !.op = "alias", !.c = c, !.n = n,
                                   !.err = res.err, !.pre = db]
  /\ ops' = ops + 1
  /\ UNCHANGED <<job, cls, call>>

Next == Promote \/ ApplyPair \/ ApplyAlias

Spec == InitStore /\ [][Next]_vars

(* after a committed merge of A into C the pipeline meets A's text again:
   get_or_create_ingredient is called with A's key and the alias_norm the
   parser derives from it *)
Resolve ==
  /\ last.op = "pair" /\ last.err = "" /\ call = NoCall
  /\ \E g \in get_or_create_ingredient(db, last.a, ParserNorm[last.a]) :
       /\ db' = g.db
       /\ call' = [fn |-> "resolve", id |-> g.id]
  /\ UNCHANGED <<last, ops, job, cls>>

(* ... or promote_recipe runs again for a recipe whose lines name A's
   text *)
Repromote ==
  /\ last.op = "pair" /\ last.err = "" /\ call = NoCall
  /\ \E r \in RecipeIds :
       \E items \in StgItems(r) :
         /\ \E i \in DOMAIN items : items[i].k = last.a
         /\ db' \in promote_recipe(db, r, items)
         /\ call' = [fn |-> "promote", id |-> 0]
  /\ UNCHANGED <<last, ops, job, cls>>

NextResolve == ApplyPair \/ Resolve \/ Repromote

SpecResolve == InitStore /\ [][NextResolve]_vars

----------------------------------------------------------------------------
(* The batches: cmd_apply over the approved pairs, run_apply over the rows
   of the collision report, statement by statement.  db is the committed
   store, job.tx the store as the open transaction sees it. *)

MaxBatch == 2

(* for attempt in range(3) *)
MaxAttempts == 3

(* mutation: leaving the with-block commits whatever was executed *)
ConnExitAlwaysCommit(committed, working, exc) == working

(* with conn: ...  commits on a normal exit and rolls back when an
   exception leaves the block *)
ConnExit(committed, working, exc) == IF exc THEN committed ELSE working

(* a row of the approved-pairs CSV and a row of the collision report *)
Pair(c, a) == [c |-> c, a |-> a]

Row(n, c, decision) == [alias_norm |-> n, canonical_id |-> c, decision |-> decision]

(* the store the batches start from: every ingredient owns the alias of
   its key, so 1 and 2 collide on one alias_norm; r1 names the three keys
   and r2 one of them; and possibly 1 was already merged into 3 *)
BatchSeed == SeedStore(IngredientIds)

BatchStores ==
  LET l1   == [k \in 1..3 |-> ParsedItem(k, PlainQuantity)]
      base == UNION {promote_recipe(d, "r2", l2) :
                       d \in promote_recipe(BatchSeed, "r1", l1),
                       l2 \in StgItems("r2")}
  IN  base \cup {apply_one_pair(d, 3, KeyOf(3), 1, KeyOf(1), FALSE).db : d \in base}

(* load_approved_pairs: up to MaxBatch approved pairs *)
ApprovedPairs ==
  LET pairs == {p \in {Pair(c, a) : c \in IngredientIds, a \in IngredientIds} :
                  p.c # p.a}
  IN  UNION {[1..n -> pairs] : n \in 1..MaxBatch}

(* read_csv: one row per colliding alias_norm with an owner as canonical
   and decision auto, besides a manual row and a row without canonical *)
ReportRows(store) ==
  {Row(x.alias_norm, x.ingredient_id, "auto") : x \in store.al}
    \cup {Row(ParserNorm[1], 1, "manual"), Row(ParserNorm[3], 0, "auto")}

Applicable(r) == r.alias_norm # <<>> /\ r.canonical_id # 0 /\ r.decision = "auto"

Reports(store) ==
  UNION {{l \in [1..n -> ReportRows(store)] :
            \A i, j \in 1..n :
               (i # j /\ Applicable(l[i]) /\ Applicable(l[j]))
                 => l[i].alias_norm # l[j].alias_norm} : n \in 1..MaxBatch}

NewJob(kind, dry_run, rest, store) ==
  [kind |-> kind, dry_run |-> dry_run, rest |-> rest, pc |-> "next",
   attempt |-> 0, others |-> <<>>, tx |-> store, pre |-> store,
   began |-> FALSE, unit |-> Pair(0, 0), exc |-> "",
   batch |-> rest, start |-> store, runs |-> 1]

InitBatch ==
  /\ db \in BatchStores
  /\ \E dry_run \in BOOLEAN :
       \/ \E l \in ApprovedPairs : job = NewJob("pairs", dry_run, l, db)
       \/ \E l \in Reports(db) : job = NewJob("groups", dry_run, l, db)
  /\ last = NoOp
  /\ ops = 0
  /\ cls = NoCls
  /\ call = NoCall

(* an exception leaves the with-block of the current unit *)
Raised(j, exc) == [j EXCEPT !.pc = "raised", !.exc = exc]

(* cmd_apply, dry run: apply_one_pair prints and the loop continues *)
PairDryRun ==
  /\ job.kind = "pairs" /\ job.pc = "next" /\ job.rest # <<>> /\ job.dry_run
  /\ job' = [job EXCEPT !.rest = Tail(job.rest), !.unit = Head(job.rest),
                        !.began = TRUE, !.pre = db,
                        !.tx = apply_one_pair(db, Head(job.rest).c,
                                              KeyOf(Head(job.rest).c),
                                              Head(job.rest).a,
                                              KeyOf(Head(job.rest).a), TRUE).db]
  /\ UNCHANGED <<db, last, ops, cls, call>>

(* with conn: entered for the next pair *)
PairBegin ==
  /\ job.kind = "pairs" /\ job.pc = "next" /\ job.rest # <<>> /\ ~job.dry_run
  /\ job' = [job EXCEPT !.pc = "insert_alias", !.unit = Head(job.rest),
                        !.began = TRUE, !.pre = db, !.tx = db]
  /\ UNCHANGED <<db, last, ops, cls, call>>

(* a statement of the open transaction gave res: go on to pc, or leave
   the with-block with the exception *)
PairStep(res, pc) ==
  IF res.err = ""
  THEN /\ job' = [job EXCEPT !.tx = res.db, !.pc = pc]
       /\ UNCHANGED db
  ELSE /\ job' = Raised([job EXCEPT !.tx = res.db], res.err)
       /\ db' = ConnExit(db, res.db, TRUE)

PairExecInsertAlias ==
  /\ job.kind = "pairs" /\ job.pc = "insert_alias"
  /\ PairStep(PairInsertAlias(job.tx, job.unit.c, KeyOf(job.unit.a)),
              "merge_conflicts")
  /\ UNCHANGED <<last, ops, cls, call>>

PairExecMergeConflicts ==
  /\ job.kind = "pairs" /\ job.pc = "merge_conflicts"
  /\ PairStep(PairMergeConflicts(job.tx, job.unit.c, job.unit.a),
              "update_non_conflict")
  /\ UNCHANGED <<last, ops, cls, call>>

PairExecUpdateNonConflict ==
  /\ job.kind = "pairs" /\ job.pc = "update_non_conflict"
  /\ PairStep(PairUpdateNonConflict(job.tx, job.unit.c, job.unit.a), "commit")
  /\ UNCHANGED <<last, ops, cls, call>>

(* the with-block is left normally: commit, next pair *)
PairCommit ==
  /\ job.kind = "pairs" /\ job.pc = "commit"
  /\ db' = ConnExit(db, job.tx, FALSE)
  /\ job' = [job EXCEPT !.pc = "next", !.rest = Tail(job.rest)]
  /\ UNCHANGED <<last, ops, cls, call>>

(* cur.execute raises: the server refuses the statement for this pair's
   data (IntegrityError) or cannot be reached (OperationalError).  Nothing
   in cmd_apply catches either, so it leaves the with-block, the loop and
   cmd_apply *)
PairStatementFails ==
  /\ job.kind = "pairs"
  /\ job.pc \in {"insert_alias", "merge_conflicts", "update_non_conflict"}
  /\ db' = ConnExit(db, job.tx, TRUE)
  /\ \E exc \in {"IntegrityError", "OperationalError"} : job' = Raised(job, exc)
  /\ UNCHANGED <<last, ops, cls, call>>

(* run_apply: rows without alias_norm or canonical_id, and rows whose
   decision is not auto, are passed over *)
GroupSkip ==
  /\ job.kind = "groups" /\ job.pc = "next" /\ job.rest # <<>>
  /\ ~Applicable(Head(job.rest))
  /\ job' = [job EXCEPT !.rest = Tail(job.rest)]
  /\ UNCHANGED <<db, last, ops, cls, call>>

(* attempt 0 of the row's transaction: with conn: entered *)
GroupBegin ==
  /\ job.kind = "groups" /\ job.pc = "next" /\ job.rest # <<>>
  /\ Applicable(Head(job.rest))
  /\ job' = [job EXCEPT !.pc = "other_ids", !.unit = Head(job.rest),
                        !.began = TRUE, !.pre = db, !.tx = db,
                        !.attempt = 0, !.others = <<>>, !.exc = ""]
  /\ UNCHANGED <<db, last, ops, cls, call>>

(* mutation: every exception is caught and the transaction tried again *)
GroupRaiseRetryAny(working, exc) ==
  /\ db' = ConnExit(db, working, TRUE)
  /\ job' = IF job.attempt + 1 < MaxAttempts
            THEN [job EXCEPT !.pc = "other_ids", !.attempt = job.attempt + 1,
                             !.tx = db', !.others = <<>>, !.exc = exc]
            ELSE Raised([job EXCEPT !.tx = working], exc)

(* an exception leaves the with-block of run_apply with the transaction
   as working: UniqueViolation is caught, rolled back and the transaction
   tried again unless this was the last attempt; anything else, and the
   last UniqueViolation, leaves run_apply *)
GroupRaise(working, exc) ==
  /\ db' = ConnExit(db, working, TRUE)
  /\ job' = IF exc = "UniqueViolation" /\ job.attempt + 1 < MaxAttempts
            THEN [job EXCEPT !.pc = "other_ids", !.attempt = job.attempt + 1,
                             !.tx = db', !.others = <<>>, !.exc = exc]
            ELSE Raised([job EXCEPT !.tx = working], exc)

(* the pc after the statements for one other_id *)
AfterOther(others) == IF others = <<>> THEN "commit" ELSE "delete_conflicts"

GroupOtherIds ==
  /\ job.kind = "groups" /\ job.pc = "other_ids"
  /\ LET ids == SortedSeq(SQL_OTHER_IDS_FOR_ALIAS(job.tx.al, job.unit.alias_norm,
                                                  job.unit.canonical_id))
     IN  job' = [job EXCEPT !.others = ids, !.pc = AfterOther(ids)]
  /\ UNCHANGED <<db, last, ops, cls, call>>

(* mutation: the statements are executed with dry_run as without *)
GroupStepIgnoreDryRun(res, pc, others) ==
  IF res.err = ""
  THEN /\ job' = [job EXCEPT !.tx = res.db, !.pc = pc, !.others = others]
       /\ UNCHANGED db
  ELSE GroupRaise(res.db, res.err)

(* a statement of the loop body gave res; with dry_run a count was run
   instead and the store is as it was *)
GroupStep(res, pc, others) ==
  IF job.dry_run
  THEN /\ job' = [job EXCEPT !.pc = pc, !.others = others]
       /\ UNCHANGED db
  ELSE IF res.err = ""
  THEN /\ job' = [job EXCEPT !.tx = res.db, !.pc = pc, !.others = others]
       /\ UNCHANGED db
  ELSE GroupRaise(res.db, res.err)

GroupExecDeleteConflicts ==
  /\ job.kind = "groups" /\ job.pc = "delete_conflicts"
  /\ GroupStep(AliasDeleteConflicts(job.tx, Head(job.others),
                                    job.unit.canonical_id),
               "update_recipe_ingredients", job.others)
  /\ UNCHANGED <<last, ops, cls, call>>

GroupExecUpdateRows ==
  /\ job.kind = "groups" /\ job.pc = "update_recipe_ingredients"
  /\ GroupStep(AliasUpdateRows(job.tx, Head(job.others), job.unit.canonical_id),
               "insert_aliases", job.others)
  /\ UNCHANGED <<last, ops, cls, call>>

GroupExecInsertAliases ==
  /\ job.kind = "groups" /\ job.pc = "insert_aliases"
  /\ GroupStep(AliasInsertAliases(job.tx, Head(job.others),
                                  job.unit.canonical_id, job.unit.alias_norm),
               "delete_aliases", job.others)
  /\ UNCHANGED <<last, ops, cls, call>>

GroupExecDeleteAliases ==
  /\ job.kind = "groups" /\ job.pc = "delete_aliases"
  /\ GroupStep(AliasDeleteAliases(job.tx, Head(job.others), job.unit.alias_norm),
               "delete_orphan", job.others)
  /\ UNCHANGED <<last, ops, cls, call>>

GroupExecDeleteOrphan ==
  /\ job.kind = "groups" /\ job.pc = "delete_orphan"
  /\ GroupStep(AliasDeleteOrphan(job.tx, Head(job.others)),
               AfterOther(Tail(job.others)), Tail(job.others))
  /\ UNCHANGED <<last, ops, cls, call>>

(* the with-block is left normally: commit, break, next row *)
GroupCommit ==
  /\ job.kind = "groups" /\ job.pc = "commit"
  /\ db' = ConnExit(db, job.tx, FALSE)
  /\ job' = [job EXCEPT !.pc = "next", !.rest = Tail(job.rest)]
  /\ UNCHANGED <<last, ops, cls, call>>

(* a write of the transaction loses a race with another session on a
   unique constraint *)
GroupUniqueViolation ==
  /\ job.kind = "groups" /\ ~job.dry_run
  /\ job.pc \in {"update_recipe_ingredients", "insert_aliases"}
  /\ GroupRaise(job.tx, "UniqueViolation")
  /\ UNCHANGED <<last, ops, cls, call>>

(* cur.execute raises anything else *)
GroupStatementFails ==
  /\ job.kind = "groups"
  /\ job.pc \in {"other_ids", "delete_conflicts", "update_recipe_ingredients",
                 "insert_aliases", "delete_aliases", "delete_orphan"}
  /\ GroupRaise(job.tx, "OperationalError")
  /\ UNCHANGED <<last, ops, cls, call>>

(* the process is killed, inside a unit or between two units: the server
   discards the open transaction, if there is one *)
Crash ==
  /\ job.kind \in {"pairs", "groups"}
  /\ job.pc \notin {"done", "raised", "crashed"}
  /\ job' = [job EXCEPT !.pc = "crashed"]
  /\ UNCHANGED <<db, last, ops, cls, call>>

MaxRuns == 2

(* the killed batch is started again on the same input, from its first
   unit *)
Resume ==
  /\ job.kind \in {"pairs", "groups"}
  /\ job.pc = "crashed" /\ job.runs < MaxRuns
  /\ job' = [NewJob(job.kind, job.dry_run, job.batch, db)
               EXCEPT !.start = job.start, !.runs = job.runs + 1]
  /\ UNCHANGED <<db, last, ops, cls, call>>

(* the loop is over *)
Finish ==
  /\ job.kind \in {"pairs", "groups"}
  /\ job.pc = "next" /\ job.rest = <<>>
  /\ job' = [job EXCEPT !.pc = "done"]
  /\ UNCHANGED <<db, last, ops, cls, call>>

NextBatch ==
  \/ PairDryRun \/ PairBegin \/ PairExecInsertAlias \/ PairExecMergeConflicts
  \/ PairExecUpdateNonConflict \/ PairCommit \/ PairStatementFails
  \/ GroupSkip \/ GroupBegin \/ GroupOtherIds \/ GroupExecDeleteConflicts
  \/ GroupExecUpdateRows \/ GroupExecInsertAliases \/ GroupExecDeleteAliases
  \/ GroupExecDeleteOrphan \/ GroupCommit \/ GroupUniqueViolation
  \/ GroupStatementFails \/ Crash \/ Resume \/ Finish

SpecBatch == InitBatch /\ [][NextBatch]_vars

(* run_apply alone, on a process that is not killed: it runs on until it
   returns or raises *)
InitGroups == InitBatch /\ job.kind = "groups"

NextGroups ==
  \/ GroupSkip \/ GroupBegin \/ GroupOtherIds \/ GroupExecDeleteConflicts
  \/ GroupExecUpdateRows \/ GroupExecInsertAliases \/ GroupExecDeleteAliases
  \/ GroupExecDeleteOrphan \/ GroupCommit \/ GroupUniqueViolation
  \/ GroupStatementFails \/ Finish

SpecGroups == InitGroups /\ [][NextGroups]_vars /\ WF_vars(NextGroups)

----------------------------------------------------------------------------
(* The Decision Classifier: export_csv over one suggestion *)

(* --min-score, in hundredths *)
MinScore == 92

(* bucket_key: first character and length band *)
bucket_key(n) ==
  IF n = <<>> THEN <<"empty">> ELSE <<n[1], (Len(n) \div 5) * 5>>

(* generate_suggestions can emit the pair with this score: both keys are
   clean, their norms share a bucket and differ in length by less than 8,
   the score reaches min_score (the ratio of two equal norms being 1.0)
   and the keys are not identical up to case *)
Suggested(canonical_key, alias_key, score) ==
  LET cn == normalize_key(canonical_key)
      an == normalize_key(alias_key)
  IN  /\ cn # <<>> /\ ~looks_bad_key(canonical_key)
      /\ an # <<>> /\ ~looks_bad_key(alias_key)
      /\ bucket_key(cn) = bucket_key(an)
      /\ Len(cn) - Len(an) < 8 /\ Len(an) - Len(cn) < 8
      /\ score >= MinScore
      /\ (cn = an) => score = 100
      /\ Lower(Strip(canonical_key)) # Lower(Strip(alias_key))

(* ingredient keys a suggestion can carry *)
SuggestionKeys ==
  {<<"p", "h", "o">>,
   <<"p", "h", "o*">>,
   <<"P", "h", "o">>,
   <<"p", "h", "o", " ", "2">>,
   <<"g", "a", " ", "g", "a", "o">>,
   <<"g", "a*", " ", "g", "a*", "o">>,
   <<"c", "a", "n", "h">>,
   <<"c", "h", "a", "n", "h">>,
   <<"c", "h", "a", "n", "h", " ", "l", "o">>,
   <<"g", "a", " ", "b", "o">>}

Scores == {92, 97, 98, 100}

InitClassify ==
  /\ \E ck \in SuggestionKeys, ak \in SuggestionKeys, sc \in Scores,
        ap \in BOOLEAN :
       cls = [phase |-> "suggested", canonical_key |-> ck, alias_key |-> ak,
              score |-> sc, approve_packaging |-> ap,
              decision |-> "", approved |-> ""]
  /\ db = SeedStore({})
  /\ last = NoOp
  /\ ops = 0
  /\ job = NoJob
  /\ call = NoCall

(* export_csv writes the row of the suggestion *)
Classify ==
  /\ cls.phase = "suggested"
  /\ LET d == export_csv(cls.canonical_key, cls.alias_key, cls.score,
                         cls.approve_packaging)
     IN  cls' = [cls EXCEPT !.phase = "written", !.decision = d[1],
                            !.approved = d[2]]
  /\ UNCHANGED <<db, last, ops, job, call>>

NextClassify == Classify

SpecClassify == InitClassify /\ [][NextClassify]_vars

----------------------------------------------------------------------------
(* Candidate generation: similarity and generate_suggestions *)

(* the length of the common run of a from offset i and b from offset j,
   inside a[..ahi] and b[..bhi]; offsets count from 0 *)
RunLen(a, b, i, j, ahi, bhi) ==
  LET lim == IF ahi - i < bhi - j THEN ahi - i ELSE bhi - j
  IN  CHOOSE k \in 0..lim :
        /\ \A t \in 1..k : a[i + t] = b[j + t]
        /\ k = lim \/ a[i + k + 1] # b[j + k + 1]

(* SequenceMatcher.find_longest_match without junk: of the longest
   common blocks the one starting earliest in a, then earliest in b *)
LongestMatch(a, b, alo, ahi, blo, bhi) ==
  LET cand == {<<i, j, RunLen(a, b, i, j, ahi, bhi)>> :
                 i \in alo..(ahi - 1), j \in blo..(bhi - 1)}
  IN  IF cand = {} THEN <<alo, blo, 0>>
      ELSE CHOOSE m \in cand :
             \A o \in cand :
                \/ m[3] > o[3]
                \/ m[3] = o[3] /\ m[1] < o[1]
                \/ m[3] = o[3] /\ m[1] = o[1] /\ m[2] <= o[2]

(* the total size of SequenceMatcher.get_matching_blocks *)
RECURSIVE MatchCount(_, _, _, _, _, _)
MatchCount(a, b, alo, ahi, blo, bhi) ==
  LET m == LongestMatch(a, b, alo, ahi, blo, bhi)
  IN  IF m[3] = 0 THEN 0
      ELSE m[3] + MatchCount(a, b, alo, m[1], blo, m[2])
                + MatchCount(a, b, m[1] + m[3], ahi, m[2] + m[3], bhi)

(* similarity: the ratio 2*M/T as the fraction [num, den] *)
similarity(a, b) ==
  IF a = <<>> \/ b = <<>> THEN [num |-> 0, den |-> 1]
  ELSE [num |-> 2 * MatchCount(a, b, 0, Len(a), 0, Len(b)),
        den |-> Len(a) + Len(b)]

ScoreLess(x, y) == x.num * y.den < y.num * x.den

(* sc < min_score, min_score in hundredths *)
BelowMinScore(sc, min_score) == 100 * sc.num < min_score * sc.den

IngredientRow(id, key, used_count) ==
  [id |-> id, key |-> key, norm |-> normalize_key(key), used_count |-> used_count]

Suggestion(canonical, alias, sc) ==
  [canonical_id |-> canonical.id, canonical_key |-> canonical.key,
   alias_id |-> alias.id, alias_key |-> alias.key, score |-> sc,
   used_count_canonical |-> canonical.used_count,
   used_count_alias |-> alias.used_count]

(* the bucket keys in order of first appearance (dict insertion order) *)
RECURSIVE BucketOrder(_, _)
BucketOrder(rows, seen) ==
  IF rows = <<>> THEN <<>>
  ELSE LET bk == bucket_key(Head(rows).norm)
       IN  IF bk \in seen THEN BucketOrder(Tail(rows), seen)
           ELSE <<bk>> \o BucketOrder(Tail(rows), seen \cup {bk})

(* list.sort / sorted with reverse=True: stable, greater keys first *)
SortedDesc(xs, Less(_, _)) ==
  LET rank(i) == 1 + Cardinality({j \in DOMAIN xs :
                      \/ Less(xs[i], xs[j])
                      \/ j < i /\ ~Less(xs[j], xs[i])})
  IN  [p \in DOMAIN xs |-> xs[CHOOSE i \in DOMAIN xs : rank(i) = p]]

UsageLess(x, y) == x.used_count < y.used_count

(* the sort key (s.score, s.used_count_alias) *)
SuggestionLess(x, y) ==
  \/ ScoreLess(x.score, y.score)
  \/ /\ ~ScoreLess(y.score, x.score)
     /\ x.used_count_alias < y.used_count_alias

(* the pairs a, b2 in the order the nested loops visit them *)
RECURSIVE PairsOfBucket(_, _, _)
PairsOfBucket(items, i, j) ==
  IF i > Len(items) THEN <<>>
  ELSE IF j > Len(items) THEN PairsOfBucket(items, i + 1, i + 2)
  ELSE <<<<items[i], items[j]>>>> \o PairsOfBucket(items, i, j + 1)

RECURSIVE VisitOrder(_, _)
VisitOrder(clean, bks) ==
  IF bks = <<>> THEN <<>>
  ELSE LET items == SelectSeq(clean, LAMBDA x : bucket_key(x.norm) = Head(bks))
       IN  (IF Len(items) < 2 THEN <<>>
            ELSE PairsOfBucket(SortedDesc(items, UsageLess), 1, 2))
           \o VisitOrder(clean, Tail(bks))

(* mutation: the first of the pair is always the canonical *)
PickFirst(a, b2) == <<a, b2>>

(* pick canonical = higher usage; tie -> shorter norm: <<canonical, alias>> *)
PickCanonical(a, b2) ==
  IF \/ a.used_count > b2.used_count
     \/ a.used_count = b2.used_count /\ Len(a.norm) <= Len(b2.norm)
  THEN <<a, b2>> ELSE <<b2, a>>

(* the body of the nested loops over the pairs still to visit; the list
   is returned as it stands when the cap is met, and sorted at the end *)
RECURSIVE SuggestLoop(_, _, _, _, _)
SuggestLoop(pairs, pair_count, suggestions, min_score, max_pairs) ==
  IF pairs = <<>> THEN SortedDesc(suggestions, SuggestionLess)
  ELSE IF pair_count >= max_pairs THEN suggestions
  ELSE LET a  == Head(pairs)[1]
           b2 == Head(pairs)[2]
           sc == similarity(a.norm, b2.norm)
           ca == PickCanonical(a, b2)
       IN  IF Len(a.norm) - Len(b2.norm) >= 8 \/ Len(b2.norm) - Len(a.norm) >= 8
           THEN SuggestLoop(Tail(pairs), pair_count, suggestions,
                            min_score, max_pairs)
           ELSE IF \/ BelowMinScore(sc, min_score)
                   \/ Lower(Strip(ca[1].key)) = Lower(Strip(ca[2].key))
           THEN SuggestLoop(Tail(pairs), pair_count + 1, suggestions,
                            min_score, max_pairs)
           ELSE SuggestLoop(Tail(pairs), pair_count + 1,
                            Append(suggestions, Suggestion(ca[1], ca[2], sc)),
                            min_score, max_pairs)

generate_suggestions(ingredients, min_score, max_pairs) ==
  LET clean == SelectSeq(ingredients,
                         LAMBDA x : x.norm # <<>> /\ ~looks_bad_key(x.key))
  IN  SuggestLoop(VisitOrder(clean, BucketOrder(clean, {})), 0, <<>>,
                  min_score, max_pairs)

MaxIngredients == 3

MaxPairs == 3

(* ingredient keys for candidate generation: "ot chuong", the same with
   diacritics, the same capitalised, "ot chuon", and "pho" *)
CandidateKeys ==
  {<<"o", "t", " ", "c", "h", "u", "o", "n", "g">>,
   <<"o*", "t", " ", "c", "h", "u", "o*", "n", "g">>,
   <<"O", "t", " ", "c", "h", "u", "o", "n", "g">>,
   <<"o", "t", " ", "c", "h", "u", "o", "n">>,
   <<"p", "h", "o">>}

(* build_ingredients: rows of distinct keys, the id being the position in
   the list, with a usage count each *)
IngredientLists ==
  UNION {{[i \in 1..n |-> IngredientRow(i, ks[i], us[i])] :
            ks \in {f \in [1..n -> CandidateKeys] :
                      \A i, j \in 1..n : i # j => f[i] # f[j]},
            us \in [1..n -> {0, 1}]} : n \in 2..MaxIngredients}

InitSuggest ==
  /\ \E l \in IngredientLists, mp \in 1..MaxPairs :
       call = [fn |-> "generate_suggestions", phase |-> "called",
               ingredients |-> l, min_score |-> MinScore, max_pairs |-> mp,
               result |-> <<>>]
  /\ db = SeedStore({})
  /\ last = NoOp
  /\ ops = 0
  /\ job = NoJob
  /\ cls = NoCls

Generate ==
  /\ call.fn = "generate_suggestions" /\ call.phase = "called"
  /\ call' = [call EXCEPT !.phase = "returned",
                          !.result = generate_suggestions(call.ingredients,
                                                          call.min_score,
                                                          call.max_pairs)]
  /\ UNCHANGED <<db, last, ops, job, cls>>

NextSuggest == Generate

SpecSuggest == InitSuggest /\ [][NextSuggest]_vars

----------------------------------------------------------------------------
(* The three normalizers side by side *)

(* fill_key_norm.norm_text, the backfill normalizer *)
norm_text(s) ==
  IF s = <<>> THEN <<>>
  ELSE Strip(SubRuns(SelectSeq(NFD(Lower(s)), LAMBDA c : ~IsMn(c)), Alnum))

MaxKeyLen == 3

(* the characters of a raw key: letters, an accented capital, a blank and
   a hyphen *)
KeyAlphabet == {"a", "n", "A*", " ", "-"}

RawKeys == UNION {[1..n -> KeyAlphabet] : n \in 1..MaxKeyLen}

InitNormalize ==
  /\ \E k \in RawKeys :
       call = [fn |-> "normalize", phase |-> "called", key |-> k,
               parser |-> <<>>, merge |-> <<>>, backfill |-> <<>>]
  /\ db = SeedStore({})
  /\ last = NoOp
  /\ ops = 0
  /\ job = NoJob
  /\ cls = NoCls

(* the key goes through the parser, the Merge Executor and the backfill *)
Normalize ==
  /\ call.fn = "normalize" /\ call.phase = "called"
  /\ call' = [call EXCEPT !.phase = "returned",
                          !.parser = normalize_alias_norm(call.key),
                          !.merge = alias_norm_for_alias(call.key),
                          !.backfill = norm_text(call.key)]
  /\ UNCHANGED <<db, last, ops, job, cls>>

NextNormalize == Normalize

SpecNormalize == InitNormalize /\ [][NextNormalize]_vars

----------------------------------------------------------------------------
(* The phase-1 parser (pipeline.py) *)

(* A raw line is the sequence of its words, the blanks between them left
   implicit; every punctuation mark stands as a word of its own.  The
   regular expressions of the parser, all anchored on word boundaries,
   are matched word by word. *)
Hanh == <<"h", "a*", "n", "h">>

(* RE_NOTE_PHRASES, the hedge phrases *)
HedgeWords == {<<"i*", "t">>}

(* RE_SUFFIX_MOD, the trailing modifiers *)
SuffixMods == {<<"n", "h", "o*">>}

(* RE_BULLET, the leading list markers *)
Bullets == {<<"-">>}

(* the characters of s.strip(" .:-") that can stand alone *)
KeyTrim == {<<"-">>}

(* RE_DECIMAL_UNIT on the first word of a part *)
QuantityWords == {<<"1", "k", "g">>}

LineWords ==
  {Hanh, <<"i*", "t">>, <<"n", "h", "o*">>, <<"1", "k", "g">>, <<"2">>,
   <<",">>, <<";">>, <<"(">>, <<")">>, <<"-">>}

MaxLineLen == 4

RawLines == UNION {[1..n -> LineWords] : n \in 0..MaxLineLen}

(* the leading words of S removed *)
LStripWords(ws, S) ==
  IF \A i \in DOMAIN ws : ws[i] \in S THEN <<>>
  ELSE SubSeq(ws, Min({i \in DOMAIN ws : ws[i] \notin S}), Len(ws))

(* the leading and the trailing words of S removed *)
StripWords(ws, S) ==
  IF \A i \in DOMAIN ws : ws[i] \in S THEN <<>>
  ELSE SubSeq(ws, Min({i \in DOMAIN ws : ws[i] \notin S}),
                  CHOOSE i \in DOMAIN ws :
                     ws[i] \notin S /\ \A j \in (i + 1)..Len(ws) : ws[j] \in S)

(* "; ".join(parts), every part a sequence of words *)
RECURSIVE JoinParts(_)
JoinParts(ps) ==
  IF ps = <<>> THEN <<>>
  ELSE IF Len(ps) = 1 THEN ps[1]
  ELSE ps[1] \o <<<<";">>>> \o JoinParts(Tail(ps))

(* RE_PARENS.findall(s) and RE_PARENS.sub("", s): the leftmost opening
   parenthesis that has a closing one after it matches up to the first
   closing one *)
RECURSIVE ParenScan(_)
ParenScan(ws) ==
  LET opens == {i \in DOMAIN ws :
                  ws[i] = <<"(">> /\ \E j \in (i + 1)..Len(ws) : ws[j] = <<")">>}
  IN  IF opens = {} THEN [notes |-> <<>>, rest |-> ws]
      ELSE LET i == Min(opens)
               j == Min({k \in (i + 1)..Len(ws) : ws[k] = <<")">>})
               t == ParenScan(SubSeq(ws, j + 1, Len(ws)))
           IN  [notes |-> <<SubSeq(ws, i + 1, j - 1)>> \o t.notes,
                rest  |-> SubSeq(ws, 1, i - 1) \o t.rest]

preclean_extract_parentheses(raw) ==
  LET s0 == LStripWords(raw, Bullets)
      s  == [i \in DOMAIN s0 |-> IF s0[i] = <<";">> THEN <<",">> ELSE s0[i]]
      m  == ParenScan(s)
      ns == SelectSeq(m.notes, LAMBDA n : n # <<>>)
  IN  IF m.notes = <<>> THEN [text |-> s, note |-> NULL]
      ELSE [text |-> m.rest,
            note |-> IF ns = <<>> THEN NULL ELSE Some(JoinParts(ns))]

split_combo(text_main) ==
  IF \A i \in DOMAIN text_main : text_main[i] # <<",">> THEN <<text_main>>
  ELSE SelectSeq(SplitOn(text_main, <<",">>), LAMBDA q : q # <<>>)

(* no line of RawLines matches RE_FRACTION_UNIT *)
parse_amount_unit_minimal(text_main) ==
  IF text_main # <<>> /\ Head(text_main) \in QuantityWords
  THEN [amount |-> Some(1), unit |-> Some("kg"), rest |-> Tail(text_main)]
  ELSE [amount |-> NULL, unit |-> NULL, rest |-> text_main]

(* the phrase loop of extract_key_and_note *)
RECURSIVE AppendNew(_, _)
AppendNew(note_parts, phrases) ==
  IF phrases = <<>> THEN note_parts
  ELSE IF \E i \in DOMAIN note_parts : note_parts[i] = <<Head(phrases)>>
       THEN AppendNew(note_parts, Tail(phrases))
       ELSE AppendNew(Append(note_parts, <<Head(phrases)>>), Tail(phrases))

extract_key_and_note(rest, note0) ==
  LET np0 == IF note0 = NULL THEN <<>> ELSE <<note0[1]>>
      np1 == AppendNew(np0, SelectSeq(rest, LAMBDA w : w \in HedgeWords))
      s1  == SelectSeq(rest, LAMBDA w : w \notin HedgeWords)
      mod == Len(s1) >= 2 /\ s1[Len(s1)] \in SuffixMods
      np2 == IF mod THEN Append(np1, <<s1[Len(s1)]>>) ELSE np1
      s2  == IF mod THEN SubSeq(s1, 1, Len(s1) - 1) ELSE s1
  IN  [key  |-> Lower(JoinSeq(StripWords(s2, KeyTrim))),
       note |-> IF np2 = <<>> THEN NULL ELSE Some(JoinParts(np2))]

(* RE_NOTE_PHRASES.search(text.lower()) *)
NotePhraseFound(ws) == \E i \in DOMAIN ws : Lower(ws[i]) \in HedgeWords

InferRoleIgnoreCombo(raw, note, is_combo) ==
  IF NotePhraseFound(raw) THEN "optional"
  ELSE IF note # NULL /\ NotePhraseFound(note[1]) THEN "optional"
  ELSE "core"

infer_role(raw, note, is_combo) ==
  IF is_combo THEN "optional"
  ELSE IF NotePhraseFound(raw) THEN "optional"
  ELSE IF note # NULL /\ NotePhraseFound(note[1]) THEN "optional"
  ELSE "core"

ParsedIngredient(amount, unit, key, alias_norm, note, role) ==
  [amount |-> amount, unit |-> unit, key |-> key, alias_norm |-> alias_norm,
   note |-> note, role |-> role]

parse_ingredient_text_phase1(raw_text) ==
  LET p        == preclean_extract_parentheses(raw_text)
      parts    == split_combo(p.text)
      is_combo == Len(parts) > 1
      One(part) ==
        LET q  == parse_amount_unit_minimal(part)
            kn == extract_key_and_note(q.rest, p.note)
        IN  [skip |-> \/ part = <<>>
                      \/ kn.key = <<>>
                      \/ \E i \in DOMAIN kn.key : kn.key[i] \in Digits,
             item |-> ParsedIngredient(q.amount, q.unit, kn.key,
                                       normalize_alias_norm(kn.key), kn.note,
                                       infer_role(raw_text, kn.note, is_combo))]
      all  == [i \in DOMAIN parts |-> One(parts[i])]
      kept == SelectSeq(all, LAMBDA x : ~x.skip)
  IN  [i \in DOMAIN kept |-> kept[i].item]

InitParse ==
  /\ \E l \in RawLines :
       call = [fn |-> "parse", phase |-> "called", raw |-> l, items |-> <<>>]
  /\ db = SeedStore({})
  /\ last = NoOp
  /\ ops = 0
  /\ job = NoJob
  /\ cls = NoCls

Parse ==
  /\ call.fn = "parse" /\ call.phase = "called"
  /\ call' = [call EXCEPT !.phase = "returned",
                          !.items = parse_ingredient_text_phase1(call.raw)]
  /\ UNCHANGED <<db, last, ops, job, cls>>

NextParse == Parse

SpecParse == InitParse /\ [][NextParse]_vars

----------------------------------------------------------------------------
(* Properties of the serial transactions *)

PairCommitted == last.op = "pair" /\ last.err = ""

RowsOf(ri, id) == {x \in ri : x.ingredient_id = id}

AliasesOf(al, id) == {x \in al : x.ingredient_id = id}

HasRow(ri, r, id) == \E x \in ri : x.recipe_id = r /\ x.ingredient_id = id

(* C1: after a committed apply_one_pair(C, A), C # A, no join-row has
   ingredient_id = A, and every recipe that had a join-row for A has a
   join-row for C *)
C1_AliasRowsRepointed ==
  PairCommitted =>
    /\ RowsOf(db.ri, last.a) = {}
    /\ \A x \in RowsOf(last.pre.ri, last.a) : HasRow(db.ri, x.recipe_id, last.c)

(* a merge that met a conflicting recipe and a non-conflicting one *)
C1_Witness ==
  /\ PairCommitted
  /\ \E x \in RowsOf(last.pre.ri, last.a) :
        HasRow(last.pre.ri, x.recipe_id, last.c)
  /\ \E x \in RowsOf(last.pre.ri, last.a) :
        ~HasRow(last.pre.ri, x.recipe_id, last.c)

(* C2: recipe_ingredients holds at most one row per (recipe_id,
   ingredient_id) in every reachable state, and no transaction attempts
   a write that violates it *)
C2_UniqueJoinRows ==
  /\ UniqueJoinRows(db.ri)
  /\ last.err # "UniqueViolation"

(* a collision-group resolution that met a recipe linked to both the
   other entity and the canonical *)
C2_Witness ==
  /\ last.op = "alias"
  /\ last.err = ""
  /\ \E o \in SQL_OTHER_IDS_FOR_ALIAS(last.pre.al, last.n, last.c) :
       \E x \in RowsOf(last.pre.ri, o) : HasRow(last.pre.ri, x.recipe_id, last.c)

(* C3: applying apply_one_pair to the same pair a second time raises
   nothing and leaves aliases, join-rows and ingredients as the first
   application left them *)
C3_PairIdempotent ==
  PairCommitted =>
    apply_one_pair(db, last.c, KeyOf(last.c), last.a, KeyOf(last.a), FALSE)
      = Ok(db)

(* a merge that inserted the alias, merged a conflicting row whose note
   it took from the alias side, and so changed the store *)
C3_Witness ==
  /\ PairCommitted
  /\ db.al # last.pre.al
  /\ \E p \in Conflicts(last.pre.ri, last.c, last.a) :
        p[1].note = NULL /\ p[2].note # NULL

(* C4: after merging A into C, if nothing else references A, the
   ingredient A no longer exists *)
C4_AliasEntityDeleted ==
  (/\ PairCommitted
   /\ RowsOf(db.ri, last.a) = {}
   /\ AliasesOf(db.al, last.a) = {})
    => last.a \notin db.ing

(* C5, as amended: after a committed apply_one_pair(C, A), C owns an alias
   record whose alias_norm is normalize_key of A's key; the record with
   A's key as its text is inserted when C owned none with that
   alias_norm; C's earlier alias records are unchanged *)
C5_AliasRegisteredByNorm ==
  PairCommitted =>
    LET an  == MergeNorm[last.a]
        was == AliasesOf(last.pre.al, last.c)
        now == AliasesOf(db.al, last.c)
        new == AliasRow(last.c, KeyOf(last.a), an)
    IN  /\ \E x \in now : x.alias_norm = an
        /\ (~\E x \in was : x.alias_norm = an) => new \in now
        /\ was \subseteq now
        /\ now \ was \subseteq {new}

(* a merge into a canonical that owned aliases and gained the new one *)
C5_Witness ==
  /\ PairCommitted
  /\ AliasesOf(last.pre.al, last.c) # {}
  /\ AliasesOf(db.al, last.c) # AliasesOf(last.pre.al, last.c)

(* C5 as stated: after a committed apply_one_pair(C, A) an alias record
   owned by C whose alias text is A's key exists *)
C5_AliasTextRegistered ==
  PairCommitted =>
    \E x \in AliasesOf(db.al, last.c) : x.alias = KeyOf(last.a)

(* C6: the note of a merged conflicting row is the order-preserving,
   case-insensitively de-duplicated, capped concatenation of C's and A's
   note parts *)
C6_MergedNoteDeduplicated ==
  PairCommitted =>
    \A p \in Conflicts(last.pre.ri, last.c, last.a) :
      \E y \in db.ri :
        /\ y.recipe_id = p[1].recipe_id
        /\ y.ingredient_id = last.c
        /\ y.note = merge_note(p[1].note, p[2].note)

----------------------------------------------------------------------------
(* Properties of the batches *)

(* what the unit the job last entered does to the store it started from *)
UnitResult(j) ==
  IF j.kind = "pairs"
  THEN apply_one_pair(j.pre, j.unit.c, KeyOf(j.unit.c), j.unit.a,
                      KeyOf(j.unit.a), j.dry_run)
  ELSE apply_one_alias(j.pre, j.unit.alias_norm, j.unit.canonical_id, j.dry_run)

(* C7: whatever happens inside a merge or a collision-group resolution,
   crash or error, the committed store is the store before that unit or
   the store after the whole unit, never a part of it *)
C7_AllOrNothing ==
  \/ db = job.pre
  \/ job.began /\ db = UnitResult(job).db

(* a collision-group resolution that had changed rows and was cut short
   by a crash or an error *)
C7_Witness ==
  /\ job.kind = "groups"
  /\ job.pc \in {"raised", "crashed"}
  /\ job.tx # job.pre
  /\ job.tx # UnitResult(job).db

(* one uninterrupted run of a batch on a store: every unit as a whole,
   in order *)
RECURSIVE RunAll(_, _, _, _)
RunAll(store, kind, dry_run, units) ==
  IF units = <<>> THEN store
  ELSE LET u == Head(units)
           res == IF kind = "pairs"
                  THEN apply_one_pair(store, u.c, KeyOf(u.c), u.a, KeyOf(u.a),
                                      dry_run)
                  ELSE IF Applicable(u)
                  THEN apply_one_alias(store, u.alias_norm, u.canonical_id,
                                       dry_run)
                  ELSE Ok(store)
       IN  IF res.err # "" THEN store
           ELSE RunAll(res.db, kind, dry_run, Tail(units))

(* C15: a batch that was killed after some committed units and run again
   from its first unit ends with the store one uninterrupted run of the
   batch produces *)
C15_ResumeEqualsOneRun ==
  (job.kind \in {"pairs", "groups"} /\ job.pc = "done" /\ job.runs > 1)
    => db = RunAll(job.start, job.kind, job.dry_run, job.batch)

(* C8: when applying one pair of a merge batch fails on that pair's data,
   the batch does not end before every remaining approved pair was
   applied *)
C8_RemainingPairsApplied ==
  (job.kind = "pairs" /\ job.pc = "raised" /\ job.exc = "IntegrityError")
    => Len(job.rest) <= 1

(* C9: when a group has used up its retries on a uniqueness violation,
   run_apply does not end before every later group was resolved *)
C9_LaterGroupsResolved ==
  (job.kind = "groups" /\ job.pc = "raised" /\ job.exc = "UniqueViolation")
    => Len(job.rest) <= 1

----------------------------------------------------------------------------
(* Properties of the Decision Classifier *)

Written == cls.phase = "written"

SameNorm == normalize_key(cls.canonical_key) = normalize_key(cls.alias_key)

(* a reject rule that can match two keys of equal normalized form: a key
   is disqualified, or the shared form holds both tokens of a dangerous
   near-miss pair *)
RejectedFirst ==
  \/ looks_bad_key(cls.alias_key)
  \/ looks_bad_key(cls.canonical_key)
  \/ has_dangerous_pair(normalize_key(cls.canonical_key),
                        normalize_key(cls.alias_key))

(* C10, as amended: a suggestion whose two keys have exactly equal
   normalized forms is decided auto_approve with approved Y, unless a
   reject rule matches first, in which case it is decided auto_reject *)
C10_EqualNormsApprovedUnlessRejected ==
  (Written /\ SameNorm) =>
    IF RejectedFirst
    THEN cls.decision = "auto_reject" /\ cls.approved = ""
    ELSE cls.decision = "auto_approve" /\ cls.approved = "Y"

(* a diacritic-only suggestion that generate_suggestions emits was
   approved *)
C10_Witness ==
  /\ Written /\ SameNorm
  /\ Suggested(cls.canonical_key, cls.alias_key, cls.score)
  /\ cls.decision = "auto_approve"

(* C10 as stated: a suggestion generate_suggestions emits whose two keys
   have exactly equal normalized forms is always decided auto_approve *)
C10_EqualNormsAlwaysApproved ==
  (/\ Written /\ SameNorm
   /\ Suggested(cls.canonical_key, cls.alias_key, cls.score))
    => cls.decision = "auto_approve"

CanonNorm == normalize_key(cls.canonical_key)

AliasNorm == normalize_key(cls.alias_key)

(* one of the four reject rules of export_csv matches the suggestion *)
RejectRuleMatches ==
  \/ looks_bad_key(cls.alias_key)
  \/ looks_bad_key(cls.canonical_key)
  \/ protein_mismatch(CanonNorm, AliasNorm)
  \/ has_dangerous_pair(CanonNorm, AliasNorm)
  \/ last_token_diff(CanonNorm, AliasNorm) /\ cls.score < LastTokenScore

(* one of the two approve rules matches it *)
ApproveRuleMatches ==
  \/ CanonNorm = AliasNorm
  \/ cls.approve_packaging /\ has_packaging_suffix(AliasNorm, CanonNorm)

HasDigit(key) == \E i \in DOMAIN key : key[i] \in Digits

(* C11: whenever a reject rule matches, the decision is auto_reject with
   approved blank, even if an approve rule matches too; a pair with a
   digit in either key is auto_reject at every score; and without a
   matching reject rule an approve rule gives auto_approve *)
C11_RejectRulesDominate ==
  Written =>
    /\ RejectRuleMatches => cls.decision = "auto_reject" /\ cls.approved = ""
    /\ (HasDigit(cls.canonical_key) \/ HasDigit(cls.alias_key))
         => cls.decision = "auto_reject"
    /\ (~RejectRuleMatches /\ ApproveRuleMatches)
         => cls.decision = "auto_approve" /\ cls.approved = "Y"

(* a suggestion rejected for its differing last token although the
   packaging-suffix rule matches it *)
C11_Witness ==
  /\ Written
  /\ ~looks_bad_key(cls.alias_key) /\ ~looks_bad_key(cls.canonical_key)
  /\ last_token_diff(CanonNorm, AliasNorm) /\ cls.score < LastTokenScore
  /\ cls.approve_packaging /\ has_packaging_suffix(AliasNorm, CanonNorm)
  /\ cls.decision = "auto_reject"

----------------------------------------------------------------------------
(* Properties of candidate generation *)

Generated == call.fn = "generate_suggestions" /\ call.phase = "returned"

(* C12: in every emitted Suggestion the canonical side has strictly
   higher usage than the alias side, or equal usage and a normalized key
   no longer than the alias's *)
C12_CanonicalByUsageThenLength ==
  Generated =>
    \A i \in DOMAIN call.result :
       LET sg == call.result[i]
       IN  \/ sg.used_count_canonical > sg.used_count_alias
           \/ /\ sg.used_count_canonical = sg.used_count_alias
              /\ Len(normalize_key(sg.canonical_key))
                   <= Len(normalize_key(sg.alias_key))

(* a Suggestion of equal usage whose canonical is the later row of the
   input, chosen for its shorter normalized key *)
C12_Witness ==
  /\ Generated
  /\ \E i \in DOMAIN call.result :
        LET sg == call.result[i]
        IN  /\ sg.used_count_canonical = sg.used_count_alias
            /\ sg.canonical_id > sg.alias_id
            /\ Len(normalize_key(sg.canonical_key))
                 < Len(normalize_key(sg.alias_key))

(* C13: the returned list is ordered by score descending and, among equal
   scores, by alias-side usage descending, for every input and every
   max_pairs *)
C13_SuggestionsOrdered ==
  Generated =>
    \A i, j \in DOMAIN call.result :
       i < j => ~SuggestionLess(call.result[i], call.result[j])

----------------------------------------------------------------------------
(* Properties of the normalizers *)

(* C14: normalize_alias_norm, normalize_key and norm_text return the same
   string for every input *)
C14_NormalizersAgree ==
  (call.fn = "normalize" /\ call.phase = "returned")
    => call.parser = call.merge /\ call.merge = call.backfill


----------------------------------------------------------------------------
(* Property of the phase-1 parser *)

Parsed == call.fn = "parse" /\ call.phase = "returned"

(* the number of comma parts the line splits into *)
CommaParts(raw) == Len(split_combo(preclean_extract_parentheses(raw).text))

Hedged(raw, it) ==
  NotePhraseFound(raw) \/ (it.note # NULL /\ NotePhraseFound(it.note[1]))

(* C16: every item parse_ingredient_text_phase1 returns has role
   "optional" exactly when the line split into more than one comma part
   or the raw line or the item's note holds a hedge phrase, and "core"
   otherwise; so every item of a combo line is "optional" *)
C16_RoleOptionalIffComboOrHedge ==
  Parsed =>
    \A i \in DOMAIN call.items :
      /\ call.items[i].role \in {"optional", "core"}
      /\ call.items[i].role = "optional"
           <=> (CommaParts(call.raw) > 1 \/ Hedged(call.raw, call.items[i]))
      /\ CommaParts(call.raw) > 1 => call.items[i].role = "optional"

(* a combo line without any hedge phrase has returned two optional items *)
C16_Witness ==
  /\ Parsed
  /\ CommaParts(call.raw) > 1
  /\ Len(call.items) = 2
  /\ \A i \in DOMAIN call.items :
       ~Hedged(call.raw, call.items[i]) /\ call.items[i].role = "optional"


----------------------------------------------------------------------------
(* Property of the conflict merge *)

(* C17: after a committed apply_one_pair(C, A), every join-row of C that
   absorbed a conflicting join-row of A carries the amount and the unit of
   one and the same side: those of C's row or those of A's row, never the
   amount of one with the unit of the other *)
C17_AmountUnitFromOneSide ==
  PairCommitted =>
    \A p \in Conflicts(last.pre.ri, last.c, last.a) :
      \A m \in db.ri :
        (m.recipe_id = p[1].recipe_id /\ m.ingredient_id = last.c) =>
          \/ (m.amount = p[1].amount /\ m.unit = p[1].unit)
          \/ (m.amount = p[2].amount /\ m.unit = p[2].unit)


----------------------------------------------------------------------------
(* Properties of the retry loop of run_apply *)

InGroup ==
  /\ job.kind = "groups"
  /\ job.pc \in {"other_ids", "delete_conflicts", "update_recipe_ingredients",
                 "insert_aliases", "delete_aliases", "delete_orphan", "commit"}

(* a step of the retry loop: a new attempt follows a UniqueViolation only,
   is at most the third, and starts on the store as committed, which the
   failed attempt has not changed; an exception that leaves run_apply is
   either not a UniqueViolation or that of the last attempt, and leaves the
   store as committed *)
RetryStep ==
  /\ (job.kind = "groups" /\ job'.kind = "groups" /\ job'.runs = job.runs
        /\ job'.attempt # job.attempt /\ job.pc # "next")
       => /\ job'.attempt = job.attempt + 1
          /\ job'.attempt < MaxAttempts
          /\ job'.exc = "UniqueViolation"
          /\ job'.pc = "other_ids"
          /\ db' = db
          /\ job'.tx = db
  /\ (InGroup /\ job'.pc = "raised")
       => /\ db' = db
          /\ job'.exc = "UniqueViolation" => job.attempt = MaxAttempts - 1

(* C18: in run_apply the transaction of a group is tried again only after
   a UniqueViolation and at most MaxAttempts times in all, every failed
   attempt is rolled back before the next starts, any other error leaves
   run_apply at once, and the loop of a group always ends, with a commit
   or a raised error *)
C18_RetryLoop ==
  /\ [](job.kind = "groups" => job.attempt \in 0..(MaxAttempts - 1))
  /\ [][RetryStep]_vars
  /\ (InGroup ~> (job.pc \in {"next", "raised"}))

(* the third attempt of a group, after two UniqueViolations, is about to
   commit *)
C18_Witness ==
  /\ InGroup /\ job.pc = "commit"
  /\ job.attempt = MaxAttempts - 1
  /\ job.exc = "UniqueViolation"


----------------------------------------------------------------------------
(* Properties of the collision resolution *)

AliasCommitted == last.op = "alias" /\ last.err = ""

(* the ingredients that shared last.n with the canonical before the call *)
Sharers ==
  {x.ingredient_id :
     x \in {y \in last.pre.al :
              y.alias_norm = last.n /\ y.ingredient_id # last.c}}

(* C19: after a committed apply_one_alias(n, C) no ingredient other than
   C owns an alias of norm n, C owns one if another ingredient owned one
   before, and no join-row references an ingredient that shared n with C
   before the call *)
C19_CollisionResolved ==
  AliasCommitted =>
    /\ \A x \in db.al : x.alias_norm = last.n => x.ingredient_id = last.c
    /\ Sharers # {} =>
         \E x \in db.al : x.ingredient_id = last.c /\ x.alias_norm = last.n
    /\ \A x \in db.ri : x.ingredient_id \notin Sharers

(* the call has moved the norm to a canonical that did not own it, and a
   join-row away from an ingredient that shared it *)
C19_Witness ==
  /\ AliasCommitted
  /\ \E x \in last.pre.ri : x.ingredient_id \in Sharers
  /\ ~\E x \in last.pre.al : x.ingredient_id = last.c /\ x.alias_norm = last.n
  /\ \E x \in db.al : x.ingredient_id = last.c /\ x.alias_norm = last.n


----------------------------------------------------------------------------
(* Properties of the orphan delete *)

(* no join-row and no alias of store s references an ingredient s lacks *)
NoDangling(s) ==
  /\ \A x \in s.ri : x.ingredient_id \in s.ing
  /\ \A x \in s.al : x.ingredient_id \in s.ing

Orphan(s, i) ==
  /\ ~\E x \in s.ri : x.ingredient_id = i
  /\ ~\E x \in s.al : x.ingredient_id = i

InGroupTx == job.kind = "groups" /\ ~job.dry_run /\ job.pc # "next"

(* a statement of a collision transaction deletes orphans only, and a
   commit removes no ingredient the committed store still references *)
DeleteStep ==
  /\ (InGroupTx /\ job.pc = "delete_orphan" /\ job'.pc # "crashed")
       => \A i \in job.tx.ing \ job'.tx.ing : Orphan(job.tx, i)
  /\ \A i \in db.ing \ db'.ing : Orphan(db', i)

(* C20: in every state the batches of merges and of collision resolutions
   reach, within a transaction as well as after it, no join-row and no
   alias references a deleted ingredient, and an ingredient is deleted
   only when, after the repointing, it owns no alias and no join-row *)
C20_DeletedOnlyWhenOrphan ==
  /\ [](NoDangling(db) /\ (InGroupTx /\ job.pc # "raised" => NoDangling(job.tx)))
  /\ [][DeleteStep]_vars

(* a collision resolution has committed the delete of an ingredient *)
C20_Witness ==
  /\ job.kind = "groups" /\ job.pc = "next"
  /\ \E i \in job.start.ing : i \notin db.ing


----------------------------------------------------------------------------
(* Property of identity resolution after a merge *)

(* C21: after a committed apply_one_pair(C, A), get_or_create_ingredient
   called with A's key and its parser-derived alias_norm returns C and
   never A, and a recipe promoted again with A's text gets no join-row
   that references A *)
C21_ResolvesToCanonical ==
  /\ call.fn = "resolve" => (call.id = last.c /\ call.id # last.a)
  /\ call.fn = "promote" => ~\E x \in db.ri : x.ingredient_id = last.a


----------------------------------------------------------------------------
(* Property of a whole batch of merges *)

(* C22: when cmd_apply has committed every pair of its batch, in whatever
   order the pairs stand and also when the canonical of one pair is the
   alias of another, no join-row references an ingredient that was the
   alias side of a pair of the batch *)
C22_NoRowOnAnyAliasSide ==
  (job.kind = "pairs" /\ ~job.dry_run /\ job.pc = "done" /\ job.runs = 1)
    => \A i \in DOMAIN job.batch :
         ~\E x \in db.ri : x.ingredient_id = job.batch[i].a


----------------------------------------------------------------------------
(* Property of the dry runs *)

DryRun == job.kind \in {"pairs", "groups"} /\ job.dry_run

(* C23: with dry_run set, cmd_apply with apply_one_pair and run_apply with
   apply_one_alias leave ingredients, ingredient_aliases and
   recipe_ingredients as they were when the batch started, in the
   committed store and in the open transaction alike *)
C23_DryRunChangesNothing ==
  DryRun => (db = job.start /\ job.tx = job.start)

(* a dry run of run_apply has gone through a batch that, run for real,
   changes the store *)
C23_Witness ==
  /\ DryRun /\ job.kind = "groups" /\ job.pc = "done" /\ job.began
  /\ RunAll(job.start, job.kind, FALSE, job.batch) # job.start

====
